---------------------------- MODULE Spec2Model ----------------------------
(***************************************************************************)
(* Venue occupancy counter (babbisen/queue-hopper).                        *)
(*                                                                         *)
(* src/club-counter-demo/src/App.tsx: an event-sourced ledger kept by      *)
(* every open tab (an "instance"), synchronised over a BroadcastChannel    *)
(* and over the storage events of the shared localStorage.                 *)
(*                                                                         *)
(* All tabs are same-origin: they share one localStorage (LEDGER_KEY,      *)
(* SETTINGS_KEY) and one wall clock (Date.now()).                          *)
(***************************************************************************)
EXTENDS Integers, Sequences, FiniteSets, TLC

(***************************************************************************)
(* Bounds of the model.                                                    *)
(***************************************************************************)
\* Events created in one behaviour (uid() calls).
MaxEvents == 2
\* Milliseconds the clock runs through (Date.now() takes the values 1..MaxTime).
MaxTime == 2
\* Messages the channel delivers twice in one behaviour.
MaxDups == 1
\* Events created in one behaviour of the single-tab specifications.
MaxGateEvents == 3
\* Length of the ledgers computeStateFromLedger is applied to on its own.
MaxFoldLen == 3
\* Messages waiting at a tab beyond which no further tab is opened.
MaxQueue == 2

\* The open tabs.
Instances == {"A", "B"}

\* type Role (App.tsx:98) and the roles list (App.tsx:175).
roles == {"Doorman", "Manager", "Marshal"}

\* computeStateFromLedger(ledger, 200) at App.tsx:333.
DefaultCapacity == 200
\* clamp(..., 0, 2000) of the capacity input, App.tsx:508.
MaxCapacityInput == 2000
\* simulateCrowd's script: 12 IN then 6 OUT, App.tsx:630-631.
CrowdIns == 12
CrowdOuts == 6

\* Values typed into the prompts and the capacity input.
SetInputs == {0, 2}
AdjustInputs == {-1, 1}
CapacityInputs == {0, 1}

VARIABLES
  now,           \* Date.now(), shared by all tabs
  nextId,        \* number of uid() results handed out so far, plus one
  bcSupported,   \* whether new BroadcastChannel(CHANNEL) succeeds in this browser
  storage,       \* localStorage[LEDGER_KEY], parsed
  settingsRole,  \* localStorage[SETTINGS_KEY].role
  up,            \* up[i]: the component of tab i is mounted
  ledger,        \* ledger[i]: the React state `ledger`
  ledger0,       \* ledger0[i]: `ledger` as closed over by onMessage at mount
  offline,       \* offline[i]
  oneInOneOut,   \* oneInOneOut[i]
  role,          \* role[i]
  pendingQueue,  \* pendingQueue[i]: pendingQueue.current
  inbox,         \* inbox[i]: channel messages not yet handled by i, oldest first
  storageEv,     \* storageEv[i]: storage events (newValue) not yet handled by i, oldest first
  crowd,         \* crowd[i]: the running simulateCrowd script of tab i, or NoCrowd
  dups,          \* the duplicate deliveries so far: <<receiving tab, message>>, in order
  peers,         \* peers[i][d]: time units since i last set peers[d], at most LivenessWindow
  arg,           \* a ledger handed to computeStateFromLedger on its own
  out,           \* what computeStateFromLedger returned for arg
  folded,        \* whether out has been computed
  startTs,       \* buildActualSeries: the start of the window
  interval,      \* buildActualSeries: the length of a bucket
  points,        \* buildActualSeries: the samples returned
  state,         \* script.js: the `state` object (and, saved after every change, localStorage)
  clock,         \* script.js: new Date(), as an instant counted in slots from the epoch
  tz,            \* script.js: the browser's time zone, in slots east of UTC
  loaded,        \* script.js: the page's load handler has run
  raw,           \* the text found under each localStorage key when a page starts
  failed,        \* failed[p]: the startup of page p ended with an uncaught exception
  typed          \* the text typed into the prompt or input field of a numeric control

vars == <<now, nextId, bcSupported, storage, settingsRole, up, ledger, ledger0,
          offline, oneInOneOut, role, pendingQueue, inbox, storageEv, crowd,
          dups, peers, arg, out, folded, startTs, interval, points, state,
          clock, tz, loaded, raw, failed, typed>>

\* The variables of the projection taken on its own.
foldVars == <<arg, out, folded, startTs, interval, points>>

\* The variables of the club counter (App.tsx).
tabVars == <<now, nextId, bcSupported, storage, settingsRole, up, ledger,
             ledger0, offline, oneInOneOut, role, pendingQueue, inbox,
             storageEv, crowd, dups, peers>>

\* The variables of the person counter (src/script.js).
counterVars == <<state, clock, tz, loaded>>

\* The texts a page is given: what is persisted when it starts, what is typed.
startVars == <<raw, failed, typed>>

(***************************************************************************)
(* Helpers.                                                                *)
(***************************************************************************)
Max(a, b) == IF a >= b THEN a ELSE b
Min(a, b) == IF a <= b THEN a ELSE b

\* const clamp = (n, min, max) => Math.max(min, Math.min(max, n))
clamp(n, lo, hi) == Max(lo, Min(hi, n))

Range(s) == {s[k] : k \in 1..Len(s)}

Ids(s) == {s[k].id : k \in 1..Len(s)}

\* prev.some((e) => e.id === id)
HasId(s, id) == \E k \in 1..Len(s) : s[k].id = id

(***************************************************************************)
(* LedgerEvent (App.tsx:100-104).  One record shape for the five variants: *)
(* the payload field a variant does not have is 0 and is never read.       *)
(* deviceId and door are labels no operation reads.                        *)
(***************************************************************************)
InOut(id, ts, type, amount, r) ==
  [id |-> id, ts |-> ts, type |-> type, amount |-> amount, value |-> 0,
   delta |-> 0, role |-> r]

SetEvent(id, ts, value, r) ==
  [id |-> id, ts |-> ts, type |-> "SET", amount |-> 0, value |-> value,
   delta |-> 0, role |-> r]

CapacityEvent(id, ts, value, r) ==
  [id |-> id, ts |-> ts, type |-> "CAPACITY", amount |-> 0, value |-> value,
   delta |-> 0, role |-> r]

AdjustEvent(id, ts, delta, r) ==
  [id |-> id, ts |-> ts, type |-> "ADJUST", amount |-> 0, value |-> 0,
   delta |-> delta, role |-> r]

(***************************************************************************)
(* Array.prototype.sort((a, b) => a.ts - b.ts): a stable sort on ts alone. *)
(* Events of equal ts keep the order they had in the array.                *)
(***************************************************************************)
\* e placed behind every element whose ts is <= e.ts (s is sorted by ts).
InsertByTs(s, e) ==
  LET k == Cardinality({j \in 1..Len(s) : s[j].ts <= e.ts})
  IN  SubSeq(s, 1, k) \o <<e>> \o SubSeq(s, k + 1, Len(s))

RECURSIVE SortFrom(_, _)
SortFrom(done, rest) ==
  IF rest = <<>> THEN done
  ELSE SortFrom(InsertByTs(done, Head(rest)), Tail(rest))

SortByTs(s) == SortFrom(<<>>, s)

(***************************************************************************)
(* computeStateFromLedger (App.tsx:154-165).                               *)
(***************************************************************************)
\* A fold that clamps the running total at every step.
FoldStepClamped(st, e) ==
  LET occ == IF e.type = "IN" THEN st.occupancy + e.amount
             ELSE IF e.type = "OUT" THEN Max(0, st.occupancy - e.amount)
             ELSE IF e.type = "ADJUST" THEN Max(0, st.occupancy + e.delta)
             ELSE IF e.type = "SET" THEN e.value
             ELSE st.occupancy
      cap == IF e.type = "CAPACITY" THEN e.value ELSE st.capacity
  IN  [occupancy |-> occ, capacity |-> cap]

\* One pass of the for loop's body.
FoldStep(st, e) ==
  LET occ == IF e.type = "IN" THEN st.occupancy + e.amount
             ELSE IF e.type = "OUT" THEN st.occupancy - e.amount
             ELSE IF e.type = "ADJUST" THEN st.occupancy + e.delta
             ELSE IF e.type = "SET" THEN e.value
             ELSE st.occupancy
      cap == IF e.type = "CAPACITY" THEN e.value ELSE st.capacity
  IN  [occupancy |-> occ, capacity |-> cap]

RECURSIVE FoldLedger(_, _)
FoldLedger(st, s) ==
  IF s = <<>> THEN st ELSE FoldLedger(FoldStep(st, Head(s)), Tail(s))

\* A result that is not clamped.
NoClamp(st) == st

\* return { occupancy: Math.max(0, occupancy), capacity }
ClampResult(st) == [occupancy |-> Max(0, st.occupancy), capacity |-> st.capacity]

computeStateFromLedger(l, defaultCapacity) ==
  ClampResult(FoldLedger([occupancy |-> 0, capacity |-> defaultCapacity],
                         SortByTs(l)))

\* const { occupancy, capacity } = useMemo(() => computeStateFromLedger(ledger, 200), [ledger])
occupancy(i) == computeStateFromLedger(ledger[i], DefaultCapacity).occupancy
capacity(i) == computeStateFromLedger(ledger[i], DefaultCapacity).capacity

\* A gate without the Manager's bypass.
canEnterNoBypass(i) == ~oneInOneOut[i] \/ occupancy(i) < capacity(i)

\* const canEnter = !oneInOneOut || occupancy < capacity || role === "Manager"
canEnter(i) == ~oneInOneOut[i] \/ occupancy(i) < capacity(i) \/ role[i] = "Manager"
canExit(i) == TRUE
isMarshal(i) == role[i] = "Marshal"

\* usage = capacity ? (occupancy / capacity) * 100 : 0, and the status of
\* App.tsx:357-359; usage <= 80 is compared as occupancy * 100 <= 80 * capacity.
usageStatus(occ, cap) ==
  IF cap = 0 \/ occ * 100 <= 80 * cap
  THEN [color |-> "green", text |-> "Comfortable"]
  ELSE IF occ * 100 <= 100 * cap
       THEN [color |-> "amber", text |-> "Near capacity"]
       ELSE [color |-> "red", text |-> "Over capacity"]

status(i) == usageStatus(occupancy(i), capacity(i))


(***************************************************************************)
(* Ledger updaters: the functions handed to setLedger.                     *)
(***************************************************************************)
\* An updater that appends without looking for the id.
applyAlways(prev, event) == SortByTs(Append(prev, event))

\* applyRemoteEvent's updater (App.tsx:286-291).
applyRemoteEvent(prev, event) ==
  IF HasId(prev, event.id) THEN prev
  ELSE SortByTs(Append(prev, event))

\* map.set(e.id, e): a Map keeps the position of a key's first insertion.
MapSet(m, e) ==
  IF HasId(m, e.id)
  THEN [k \in 1..Len(m) |-> IF m[k].id = e.id THEN e ELSE m[k]]
  ELSE Append(m, e)

\* new Map(prev.map((e) => [e.id, e]))
RECURSIVE MapOf(_, _)
MapOf(m, s) == IF s = <<>> THEN m ELSE MapOf(MapSet(m, Head(s)), Tail(s))

\* for (const r of remote) if (!map.has(r.id)) map.set(r.id, r)
RECURSIVE MapAddMissing(_, _)
MapAddMissing(m, remote) ==
  IF remote = <<>> THEN m
  ELSE MapAddMissing(IF HasId(m, Head(remote).id) THEN m
                     ELSE Append(m, Head(remote)),
                     Tail(remote))

\* A merge in which the remote ledger wins.
mergeTakeRemote(prev, remote) == SortByTs(remote)

\* A merge that keeps the ledger as it is.
mergeNothing(prev, remote) == prev

\* A merge that appends the remote ledger without looking for the ids.
mergeAppendAll(prev, remote) == SortByTs(prev \o remote)

\* mergeRemoteLedger's updater (App.tsx:295-301).
mergeRemoteLedger(prev, remote) ==
  SortByTs(MapAddMissing(MapOf(<<>>, prev), remote))

\* addEvent's updater, the same in both branches (App.tsx:307-311, 316-321).
addEvent(prev, event) == SortByTs(Append(prev, event))

(***************************************************************************)
(* Messages on the BroadcastChannel (App.tsx:247, 273, 315, 329).          *)
(***************************************************************************)
\* `again` is the channel's, not the program's: the message has been handled
\* once by its receiver and is about to arrive a second time.
\* deviceId: localStorage[DEVICE_KEY], created by the first tab and read by
\* every later one (App.tsx:179-186), so the tabs that share a channel share
\* one id.
DeviceId == "device"

HelloMsg ==
  [type |-> "HELLO", deviceId |-> DeviceId, requestSnapshot |-> TRUE,
   again |-> FALSE]
HeartbeatMsg == [type |-> "HEARTBEAT", deviceId |-> DeviceId, again |-> FALSE]
EventMsg(e) == [type |-> "EVENT", event |-> e, again |-> FALSE]
SnapshotMsg(l) == [type |-> "SNAPSHOT", ledger |-> l, again |-> FALSE]

\* The presence map.  The code stores Date.now() and reads it only as
\* Date.now() - ts (App.tsx:222), which is what the model stores: 0 at the
\* receipt, one more for every time unit elapsed, up to LivenessWindow.
NoPeers == [d \in {} |-> 0]

\* setPeers((p) => ({ ...p, [data.deviceId]: Date.now() }))
Seen(p, d) == [x \in DOMAIN p \cup {d} |-> IF x = d THEN 0 ELSE p[x]]

\* The other tabs whose channel is open.
Others(i) == {j \in Instances \ {i} : up[j]}

\* bcRef.current?.postMessage(m) for every m of the sequence ms, in order, by
\* tab i, on top of box: each message is queued at every other open channel.
PostAll(i, ms, box) ==
  [j \in Instances |->
     IF bcSupported /\ j \in Others(i) THEN box[j] \o ms ELSE box[j]]

\* A setLedger updater that does not write to localStorage.
SetLedgerOnly(i, next, sev) ==
  /\ ledger' = [ledger EXCEPT ![i] = next]
  /\ storage' = storage
  /\ storageEv' = sev

\* localStorage.setItem(LEDGER_KEY, JSON.stringify(next)) inside a setLedger
\* updater of tab i: the new state, the stored value, and a storage event in
\* every other tab when the stored value changes.  JSON.stringify followed by
\* JSON.parse gives back an equal array for the events of this model (finite
\* numbers and strings only).
SetLedger(i, next, sev) ==
  /\ ledger' = [ledger EXCEPT ![i] = next]
  /\ storage' = next
  /\ storageEv' = [j \in Instances |->
                     IF j \in Others(i) /\ next # storage
                     THEN Append(sev[j], next) ELSE sev[j]]

(***************************************************************************)
(* Initial state: no tab is open, nothing is stored.                       *)
(***************************************************************************)
NoCrowd == [k |-> CrowdIns + CrowdOuts, offline |-> FALSE, role |-> "Doorman"]

InitTabs ==
  /\ now = 1
  /\ nextId = 1
  /\ bcSupported \in BOOLEAN
  /\ settingsRole = "Doorman"
  /\ up = [i \in Instances |-> FALSE]
  /\ ledger = [i \in Instances |-> <<>>]
  /\ ledger0 = [i \in Instances |-> <<>>]
  /\ offline = [i \in Instances |-> FALSE]
  /\ oneInOneOut = [i \in Instances |-> TRUE]
  /\ role = [i \in Instances |-> "Doorman"]
  /\ pendingQueue = [i \in Instances |-> <<>>]
  /\ inbox = [i \in Instances |-> <<>>]
  /\ storageEv = [i \in Instances |-> <<>>]
  /\ crowd = [i \in Instances |-> NoCrowd]
  /\ dups = <<>>
  /\ peers = [i \in Instances |-> NoPeers]

(***************************************************************************)
(* The person counter (src/script.js).  An instant is a number of slots    *)
(* since the epoch, as toISOString reports it (UTC); a day has             *)
(* SlotsPerDay slots, and a time of day "HH:MM" is a slot of the day.      *)
(* The browser's local time is tz slots ahead of UTC.  The role and theme  *)
(* fields only drive the display and are left out.                         *)
(***************************************************************************)
SlotsPerDay == 2
MaxClock == 6
MaxHistory == 2

TimeZones == {0, 1}
FirstInstant == 2 * SlotsPerDay
NoDate == -1                        \* null
EmptyField == -1                    \* an input field left empty
CapacityFields == {EmptyField, 2}
ResetTimeFields == {EmptyField} \cup (0..(SlotsPerDay - 1))

ZeroDaily == [in |-> 0, out |-> 0, peak |-> 0, peakTime |-> NoDate]

DefaultState ==
  [count |-> 0, capacity |-> 1, history |-> <<>>, resetTime |-> 0,
   lastReset |-> NoDate, reports |-> <<>>, daily |-> ZeroDaily]

\* toISOString().split('T')[0]: the UTC calendar date of an instant.
IsoDate(t) == t \div SlotsPerDay

\* getFullYear/getMonth/getDate: the local calendar date of an instant.
LocalDate(t) == (t + tz) \div SlotsPerDay

\* new Date(y, m, d, h, min): the instant of a local date and time of day.
LocalInstant(d, slot) == d * SlotsPerDay + slot - tz

\* resetToday of performDailyResetIfNeeded at instant t.
ResetToday(s, t) == LocalInstant(LocalDate(t), s.resetTime)

\* state.lastReset ? new Date(state.lastReset) : new Date(0)
LastReset(s) == IF s.lastReset = NoDate THEN 0 ELSE s.lastReset

\* One history entry added to a daily aggregate (script.js:65-70, 87-92);
\* at is the instant recorded as peakTime.
AddToDaily(d, delta, total, at) ==
  LET d1 == IF delta > 0 THEN [d EXCEPT !.in = @ + delta]
                         ELSE [d EXCEPT !.out = @ - delta]
  IN  IF total > d1.peak THEN [d1 EXCEPT !.peak = total, !.peakTime = at]
                         ELSE d1

logEvent(s, delta, t) ==
  LET total == s.count
  IN  [s EXCEPT !.history = Append(@, [timestamp |-> t, delta |-> delta,
                                       total |-> total]),
                !.daily = AddToDaily(@, delta, total, t)]

\* A register that does not look at the sign of the result.
registerUnguarded(s, delta, t) ==
  logEvent([s EXCEPT !.count = s.count + delta], delta, t)

register(s, delta, t) ==
  LET newCount == s.count + delta
  IN  IF newCount < 0 THEN s
      ELSE logEvent([s EXCEPT !.count = newCount], delta, t)

RECURSIVE DailyOf(_, _)
\* The forEach of recomputeDailyStats over the entries dated today.
DailyOf(h, today) ==
  IF h = <<>> THEN ZeroDaily
  ELSE LET e == h[Len(h)]
           d == DailyOf(SubSeq(h, 1, Len(h) - 1), today)
       IN  IF IsoDate(e.timestamp) = today
           THEN AddToDaily(d, e.delta, e.total, e.timestamp)
           ELSE d

recomputeDailyStats(s, t) ==
  [s EXCEPT !.daily = DailyOf(s.history, IsoDate(t))]

\* The variant that leaves the count alone.
undoKeepCount(s, t) ==
  IF s.history = <<>> THEN s
  ELSE recomputeDailyStats(
         [s EXCEPT !.history = SubSeq(@, 1, Len(@) - 1)], t)

undoLast(s, t) ==
  IF s.history = <<>> THEN s
  ELSE LET h == SubSeq(s.history, 1, Len(s.history) - 1)
       IN  recomputeDailyStats(
             [s EXCEPT !.history = h,
                       !.count = IF h # <<>> THEN h[Len(h)].total ELSE 0],
             t)

saveSettings(s, cap, rt) ==
  [s EXCEPT !.capacity = IF cap = EmptyField \/ cap < 1 THEN 1 ELSE cap,
            !.resetTime = IF rt = EmptyField THEN 0 ELSE rt]

finalizeReport(s, resetTime) ==
  LET day == resetTime - SlotsPerDay
  IN  [s EXCEPT !.reports = Append(@, [date |-> IsoDate(day),
                                       inn |-> s.daily.in,
                                       ut |-> s.daily.out,
                                       peak |-> s.daily.peak,
                                       peakTime |-> s.daily.peakTime]),
                !.daily = ZeroDaily]

\* The variant without the lastReset guard.
resetWhenDue(s, t) ==
  LET resetToday == ResetToday(s, t)
  IN  IF t >= resetToday
      THEN [finalizeReport(s, resetToday) EXCEPT !.count = 0,
                                                 !.lastReset = resetToday]
      ELSE s

performDailyResetIfNeeded(s, t) ==
  LET resetToday == ResetToday(s, t)
  IN  IF t >= resetToday /\ LastReset(s) < resetToday
      THEN [finalizeReport(s, resetToday) EXCEPT !.count = 0,
                                                 !.lastReset = resetToday]
      ELSE s

\* The text of the status badge: ratio < 0.8, ratio < 1, otherwise.
updateStatusBadge(s) ==
  IF s.capacity = 0 \/ s.count * 10 < 8 * s.capacity THEN "God"
  ELSE IF s.count < s.capacity THEN "Nesten fullt"
  ELSE "Fullt"

NoCounter ==
  /\ state = DefaultState
  /\ clock = FirstInstant
  /\ tz = 0
  /\ loaded = FALSE

PageNames == {"app", "counter"}
KeyNames == {"ledger", "settings", "counterState"}

NoStart ==
  /\ raw = [k \in KeyNames |-> "absent"]
  /\ failed = [p \in PageNames |-> FALSE]
  /\ typed = ""

NoSeries ==
  /\ startTs = 0
  /\ interval = 1
  /\ points = <<>>

NoFold ==
  /\ arg = <<>>
  /\ out = [occupancy |-> 0, capacity |-> 0]
  /\ folded = FALSE
  /\ NoSeries

Init == InitTabs /\ storage = <<>> /\ NoFold /\ NoCounter /\ NoStart

(***************************************************************************)
(* The clock.                                                              *)
(***************************************************************************)
Tick ==
  /\ now < MaxTime
  /\ now' = now + 1
  /\ UNCHANGED <<nextId, bcSupported, storage, settingsRole, up, ledger,
                 ledger0, offline, oneInOneOut, role, pendingQueue, inbox,
                 storageEv, crowd, dups, foldVars, counterVars, startVars,
                 peers>>

(***************************************************************************)
(* Mounting the component (App.tsx:177-204, 207-209, 231-283).             *)
(***************************************************************************)
Mount(i) ==
  /\ ~up[i]
  /\ up' = [up EXCEPT ![i] = TRUE]
  /\ ledger' = [ledger EXCEPT ![i] = storage]
  /\ ledger0' = [ledger0 EXCEPT ![i] = storage]
  /\ role' = [role EXCEPT ![i] = settingsRole]
  /\ inbox' = PostAll(i, <<HelloMsg>>, inbox)
  /\ UNCHANGED <<now, nextId, bcSupported, storage, settingsRole, offline,
                 oneInOneOut, pendingQueue, storageEv, crowd, dups, foldVars, counterVars, startVars,
                 peers>>

(***************************************************************************)
(* addEvent (App.tsx:304-322), called by tab i with `offline` as the       *)
(* calling closure sees it.                                                *)
(***************************************************************************)
AddEvent(i, event, off) ==
  /\ nextId' = nextId + 1
  /\ IF off
     THEN /\ pendingQueue' = [pendingQueue EXCEPT ![i] = Append(@, event)]
          /\ UNCHANGED inbox
     ELSE /\ inbox' = PostAll(i, <<EventMsg(event)>>, inbox)
          /\ UNCHANGED pendingQueue
  /\ SetLedger(i, addEvent(ledger[i], event), storageEv)
  /\ UNCHANGED <<now, bcSupported, settingsRole, up, ledger0, offline,
                 oneInOneOut, role, dups, foldVars, counterVars, startVars,
                 peers>>

(***************************************************************************)
(* The controls of the main view.                                          *)
(***************************************************************************)
\* IN button (App.tsx:470-473).
ClickIn(i, id) ==
  /\ up[i]
  /\ canEnter(i) /\ ~isMarshal(i)
  /\ AddEvent(i, InOut(id, now, "IN", 1, role[i]), offline[i])

\* OUT button (App.tsx:474-477).
ClickOut(i, id) ==
  /\ up[i]
  /\ canExit(i) /\ ~isMarshal(i)
  /\ AddEvent(i, InOut(id, now, "OUT", 1, role[i]), offline[i])

\* "Set occupancy..." (App.tsx:487-493), v the number typed into the prompt.
SetOccupancy(i, id, v) ==
  /\ up[i]
  /\ role[i] = "Manager"
  /\ AddEvent(i, SetEvent(id, now, Max(0, v), role[i]), offline[i])

\* "Adjust..." (App.tsx:494-498), d the number typed into the prompt.
Adjust(i, id, d) ==
  /\ up[i]
  /\ role[i] = "Manager"
  /\ d # 0
  /\ AddEvent(i, AdjustEvent(id, now, d, role[i]), offline[i])

\* "Max capacity" input (App.tsx:506-510).
ChangeCapacity(i, id, v) ==
  /\ up[i]
  /\ AddEvent(i, CapacityEvent(id, now, clamp(v, 0, MaxCapacityInput), role[i]),
              offline[i])

\* "Simulate crowd" (App.tsx:513, 627-635): the timers keep the addEvent, and
\* with it the offline flag, and the role of the render that was clicked.
SimulateCrowd(i) ==
  /\ up[i]
  /\ crowd[i] = NoCrowd
  /\ crowd' = [crowd EXCEPT ![i] = [k |-> 0, offline |-> offline[i],
                                    role |-> role[i]]]
  /\ UNCHANGED <<now, nextId, bcSupported, storage, settingsRole, up, ledger,
                 ledger0, offline, oneInOneOut, role, pendingQueue, inbox,
                 storageEv, dups, foldVars, counterVars, startVars,
                 peers>>

\* One setTimeout callback of the script (App.tsx:633).
CrowdTimer(i, id) ==
  /\ up[i]
  /\ crowd[i].k < CrowdIns + CrowdOuts
  /\ AddEvent(i, InOut(id, now, IF crowd[i].k < CrowdIns THEN "IN" ELSE "OUT",
                       1, crowd[i].role),
              crowd[i].offline)
  /\ crowd' = [crowd EXCEPT ![i] = [@ EXCEPT !.k = @ + 1]]

\* q.forEach((e) => bcRef.current?.postMessage({ type: "EVENT", event: e }))
FlushMessages(q) == [k \in 1..Len(q) |-> EventMsg(q[k])]

\* "Simulate offline" switch (App.tsx:482) and the effect on [offline] that
\* flushes the queue (App.tsx:325-331).
SetOffline(i, v) ==
  /\ up[i]
  /\ v # offline[i]
  /\ offline' = [offline EXCEPT ![i] = v]
  /\ IF ~v /\ Len(pendingQueue[i]) > 0
     THEN /\ pendingQueue' = [pendingQueue EXCEPT ![i] = <<>>]
          /\ inbox' = PostAll(i, FlushMessages(pendingQueue[i]), inbox)
     ELSE UNCHANGED <<pendingQueue, inbox>>
  /\ UNCHANGED <<now, nextId, bcSupported, storage, settingsRole, up, ledger,
                 ledger0, oneInOneOut, role, storageEv, crowd, dups, foldVars, counterVars, startVars,
                 peers>>

\* "One-in/One-out" switch (App.tsx:483).
SetOneInOneOut(i, v) ==
  /\ up[i]
  /\ v # oneInOneOut[i]
  /\ oneInOneOut' = [oneInOneOut EXCEPT ![i] = v]
  /\ UNCHANGED <<now, nextId, bcSupported, storage, settingsRole, up, ledger,
                 ledger0, offline, role, pendingQueue, inbox, storageEv, crowd, dups, foldVars, counterVars, startVars,
                 peers>>

\* Role select (App.tsx:445) and the effect that persists the settings
\* (App.tsx:207-209).
SetRole(i, r) ==
  /\ up[i]
  /\ r # role[i]
  /\ role' = [role EXCEPT ![i] = r]
  /\ settingsRole' = r
  /\ UNCHANGED <<now, nextId, bcSupported, storage, up, ledger, ledger0,
                 offline, oneInOneOut, pendingQueue, inbox, storageEv, crowd, dups, foldVars, counterVars, startVars,
                 peers>>

(***************************************************************************)
(* onMessage (App.tsx:240-257): tab i handles the oldest message of its    *)
(* queue.  With dup = TRUE the channel keeps the message and delivers it   *)
(* once more; handling that second copy is recorded in dups.               *)
(***************************************************************************)
Marked == {<<j, k>> \in Instances \X (1..(MaxEvents + 4)) :
             k <= Len(inbox[j]) /\ inbox[j][k].again}

Taken(i, dup) ==
  IF dup THEN [inbox EXCEPT ![i] = <<[Head(@) EXCEPT !.again = TRUE]>> \o Tail(@)]
  ELSE [inbox EXCEPT ![i] = Tail(@)]

Counted(i, m, dup) ==
  /\ dup => ~m.again /\ Len(dups) + Cardinality(Marked) < MaxDups
  /\ dups' = IF m.again /\ ~dup THEN Append(dups, <<i, m>>) ELSE dups

\* HELLO: reply with a SNAPSHOT of `ledger` as the handler closed over it.
OnHello(i, m, dup) ==
  /\ up[i]
  /\ Counted(i, m, dup)
  /\ inbox[i] # <<>> /\ m = Head(inbox[i]) /\ m.type = "HELLO"
  /\ inbox' = IF m.requestSnapshot
              THEN PostAll(i, <<SnapshotMsg(ledger0[i])>>, Taken(i, dup))
              ELSE Taken(i, dup)
  /\ peers' = [peers EXCEPT ![i] = Seen(@, m.deviceId)]
  /\ UNCHANGED <<now, nextId, bcSupported, storage, settingsRole, up, ledger,
                 ledger0, offline, oneInOneOut, role, pendingQueue, storageEv,
                 crowd, foldVars, counterVars, startVars>>

\* EVENT: applyRemoteEvent(data.event).
OnEvent(i, m, dup) ==
  /\ up[i]
  /\ Counted(i, m, dup)
  /\ inbox[i] # <<>> /\ m = Head(inbox[i]) /\ m.type = "EVENT"
  /\ inbox' = Taken(i, dup)
  /\ LET next == applyRemoteEvent(ledger[i], m.event)
     IN  IF next = ledger[i]   \* `return prev`: nothing is stored
         THEN UNCHANGED <<ledger, storage, storageEv>>
         ELSE SetLedger(i, next, storageEv)
  /\ UNCHANGED <<now, nextId, bcSupported, settingsRole, up, ledger0, offline,
                 oneInOneOut, role, pendingQueue, crowd, foldVars, counterVars, startVars,
                 peers>>

\* SNAPSHOT: mergeRemoteLedger(data.ledger).
OnSnapshot(i, m, dup) ==
  /\ up[i]
  /\ Counted(i, m, dup)
  /\ inbox[i] # <<>> /\ m = Head(inbox[i]) /\ m.type = "SNAPSHOT"
  /\ inbox' = Taken(i, dup)
  /\ SetLedger(i, mergeRemoteLedger(ledger[i], m.ledger), storageEv)
  /\ UNCHANGED <<now, nextId, bcSupported, settingsRole, up, ledger0, offline,
                 oneInOneOut, role, pendingQueue, crowd, foldVars, counterVars, startVars,
                 peers>>

\* onStorage (App.tsx:262-269): the storage event of another tab's setItem.
OnStorage(i, v) ==
  /\ up[i]
  /\ storageEv[i] # <<>> /\ v = Head(storageEv[i])
  /\ SetLedger(i, mergeRemoteLedger(ledger[i], v),
               [storageEv EXCEPT ![i] = Tail(@)])
  /\ UNCHANGED <<now, nextId, bcSupported, settingsRole, up, ledger0, offline,
                 oneInOneOut, role, pendingQueue, inbox, crowd, dups, foldVars, counterVars, startVars,
                 peers>>

(***************************************************************************)
(* uid() (App.tsx:83): Date.now() and six random characters.  The code     *)
(* compares ids for equality only, so a fresh id is modelled by the next   *)
(* unused number.                                                          *)
(***************************************************************************)
Uid == {nextId}

\* The events a tab or the store holds.
Stored == UNION ({Range(ledger[i]) : i \in Instances} \cup {Range(storage)})

\* uid() when the random suffix may repeat within one millisecond.
UidColliding == {nextId} \cup {e.id : e \in {x \in Stored : x.ts = now}}

(***************************************************************************)
(* Spec: two tabs that stay open, entries and capacity changes, offline    *)
(* mode, the channel and the storage events.                               *)
(***************************************************************************)
Create(i, id) ==
  \/ ClickIn(i, id) /\ UNCHANGED crowd
  \/ \E v \in CapacityInputs : ChangeCapacity(i, id, v) /\ UNCHANGED crowd

Receive(i, dup) ==
  \/ \E m \in Range(inbox[i]) : OnHello(i, m, dup)
  \/ \E m \in Range(inbox[i]) : OnEvent(i, m, dup)
  \/ \E m \in Range(inbox[i]) : OnSnapshot(i, m, dup)

Next ==
  \/ Tick
  \/ \E i \in Instances : Mount(i)
  \/ \E i \in Instances : \E id \in Uid : nextId <= MaxEvents /\ Create(i, id)
  \/ \E i \in Instances : \E v \in BOOLEAN : SetOffline(i, v)
  \/ \E i \in Instances : Receive(i, FALSE)
  \/ \E i \in Instances : \E v \in Range(storageEv[i]) : OnStorage(i, v)

Spec == Init /\ [][Next]_vars

(***************************************************************************)
(* Properties of the synchronisation (checked under Spec).                 *)
(***************************************************************************)
Projected(l) == computeStateFromLedger(l, DefaultCapacity)

\* The occupancy before the final clamp.
RawOccupancy(l) ==
  FoldLedger([occupancy |-> 0, capacity |-> DefaultCapacity], SortByTs(l)).occupancy

\* C1 (as claimed): two tabs that hold the same set of events hold the same
\* ledger, as a sequence, and project the same occupancy and capacity.
C1_Convergence ==
  \A i, j \in Instances :
    (up[i] /\ up[j] /\ Range(ledger[i]) = Range(ledger[j]))
      => (ledger[i] = ledger[j] /\ Projected(ledger[i]) = Projected(ledger[j]))

\* C2 (as claimed): the projection is a function of the set of events, whatever
\* the order in which they were appended or merged.
C2_Determinism ==
  \A i, j \in Instances :
    (up[i] /\ up[j] /\ Range(ledger[i]) = Range(ledger[j]))
      => Projected(ledger[i]) = Projected(ledger[j])

\* C9 (as claimed): while tab i is offline, no event of its pending queue is
\* among the events another open tab has received since it was opened (the
\* events of its ledger that it did not load at mount).
C9_OfflineWithheld ==
  \A i \in Instances : \A j \in Instances \ {i} :
    (up[i] /\ offline[i] /\ up[j])
      => Range(pendingQueue[i]) \cap (Range(ledger[j]) \ Range(ledger0[j])) = {}

\* C10 (as claimed): in the step that takes tab i out of offline mode, every
\* queued event is posted once as an EVENT message, in queue order, to every
\* other open tab, and the queue is empty afterwards.
C10_FlushAlwaysSends ==
  [][\A i \in Instances :
       (up[i] /\ offline[i] /\ ~offline'[i])
         => /\ pendingQueue'[i] = <<>>
            /\ \A j \in Others(i) :
                 inbox'[j] = inbox[j] \o FlushMessages(pendingQueue[i])]_vars

\* C10, where the browser has a BroadcastChannel: the flush posts the queue in
\* order; where it has none, the queue is emptied and no message is posted.
C10_Flush ==
  [][\A i \in Instances :
       (up[i] /\ offline[i] /\ ~offline'[i])
         => /\ pendingQueue'[i] = <<>>
            /\ bcSupported =>
                 \A j \in Others(i) :
                   inbox'[j] = inbox[j] \o FlushMessages(pendingQueue[i])
            /\ ~bcSupported => inbox' = inbox]_vars

\* The step is tab i handling a HELLO at the head of its queue.
HandlesHello(i) ==
  /\ up[i] /\ inbox[i] # <<>>
  /\ Head(inbox[i]).type = "HELLO" /\ Head(inbox[i]).requestSnapshot
  /\ inbox'[i] = Tail(inbox[i])

\* C12 (as claimed): the SNAPSHOT a tab posts when it handles a HELLO carries
\* every event of its ledger at that moment.
C12_SnapshotIsCurrent ==
  [][\A i \in Instances : \A j \in Instances \ {i} :
       (HandlesHello(i) /\ Len(inbox'[j]) = Len(inbox[j]) + 1)
         => LET reply == inbox'[j][Len(inbox'[j])]
            IN  /\ reply.type = "SNAPSHOT"
                /\ Range(ledger[i]) \subseteq Range(reply.ledger)]_vars

\* C14 (as claimed): every ledger is sorted by (ts, id): by non-decreasing ts,
\* events of equal ts by increasing id.
C14_SortedByTsId ==
  \A i \in Instances : \A k \in 1..(Len(ledger[i]) - 1) :
    \/ ledger[i][k].ts < ledger[i][k + 1].ts
    \/ /\ ledger[i][k].ts = ledger[i][k + 1].ts
       /\ ledger[i][k].id < ledger[i][k + 1].id

\* The part of C14 that holds: every ledger is sorted by non-decreasing ts.
C14_SortedByTs ==
  \A i \in Instances : \A k \in 1..(Len(ledger[i]) - 1) :
    ledger[i][k].ts <= ledger[i][k + 1].ts

Close(i) ==
  /\ up[i]
  /\ crowd[i] = NoCrowd
  /\ up' = [up EXCEPT ![i] = FALSE]
  /\ ledger' = [ledger EXCEPT ![i] = <<>>]
  /\ ledger0' = [ledger0 EXCEPT ![i] = <<>>]
  /\ offline' = [offline EXCEPT ![i] = FALSE]
  /\ oneInOneOut' = [oneInOneOut EXCEPT ![i] = TRUE]
  /\ role' = [role EXCEPT ![i] = "Doorman"]
  /\ pendingQueue' = [pendingQueue EXCEPT ![i] = <<>>]
  /\ inbox' = [inbox EXCEPT ![i] = <<>>]
  /\ storageEv' = [storageEv EXCEPT ![i] = <<>>]
  /\ peers' = [peers EXCEPT ![i] = NoPeers]
  /\ UNCHANGED <<now, nextId, bcSupported, storage, settingsRole, crowd, dups,
                 foldVars, counterVars, startVars>>

(***************************************************************************)
(* C25: the persisted snapshot tracks the ledger.  Every step that changes *)
(* the ledger of an open tab (a local append, online or offline, a remote  *)
(* EVENT, a SNAPSHOT or storage merge) leaves localStorage holding that    *)
(* tab's whole ledger, in the same order.                                  *)
(***************************************************************************)
C25_SnapshotTracksLedger ==
  [][\A i \in Instances :
       (up[i] /\ up'[i] /\ ledger'[i] # ledger[i]) => storage' = ledger'[i]]_vars

\* Tab i has merged a second event after its mount and is the last writer;
\* the other tab holds less.
C25_Witness ==
  \E i \in Instances : \E j \in Instances \ {i} :
    /\ up[i] /\ up[j]
    /\ Len(ledger[i]) = 2 /\ ledger0[i] = <<>>
    /\ storage = ledger[i]
    /\ Len(ledger[j]) = 1
    /\ inbox[i] = <<>> /\ pendingQueue[i] = <<>>
    /\ \E e \in Range(ledger[i]) : EventMsg(e) \notin Range(inbox[j])

\* No capacity change comes after an entry in the time order of ledger l, so
\* the capacity is not lowered under people already inside.
CapacityFirst(l) ==
  LET s == SortByTs(l)
  IN  \A a \in DOMAIN s : \A b \in DOMAIN s :
        (a < b /\ s[a].type = "IN") => s[b].type # "CAPACITY"

\* One-in/one-out is on everywhere and no IN event was created by a Manager.
GateOnForAll ==
  /\ \A i \in Instances : oneInOneOut[i]
  /\ \A e \in Stored : e.type = "IN" => e.role # "Manager"

(***************************************************************************)
(* C28: capacity is never exceeded under one-in/one-out.  With the policy  *)
(* on in every tab and no Manager creating entries, the projected          *)
(* occupancy of every open tab is at most its projected capacity, whatever *)
(* the interleaving of entries, deliveries and offline periods (the states *)
(* in which the capacity was lowered after an entry are left aside).       *)
(***************************************************************************)
C28_CapacityNeverExceeded ==
  \A i \in Instances :
    (up[i] /\ GateOnForAll /\ CapacityFirst(ledger[i]))
      => occupancy(i) <= capacity(i)

\* The tab that is closed and opened again.
Joiner == "B"

NextJoin ==
  \/ \E i \in Instances :
       (\A j \in Instances : Len(inbox[j]) < MaxQueue) /\ Mount(i)
  \/ Close(Joiner)
  \/ \E i \in Instances : \E id \in Uid :
       nextId <= MaxEvents /\ ClickIn(i, id) /\ UNCHANGED crowd
  \/ \E i \in Instances : Receive(i, FALSE)
  \/ \E i \in Instances : \E v \in Range(storageEv[i]) : OnStorage(i, v)

Dispatch(i) ==
  \/ Receive(i, FALSE)
  \/ \E v \in Range(storageEv[i]) : OnStorage(i, v)

SpecJoin ==
  Init /\ [][NextJoin]_vars /\ \A i \in Instances : WF_vars(Dispatch(i))

\* Tab j is opened in this step.
Joins(j) == ~up[j] /\ up'[j]

\* A tab that is opened posts HELLO, asking for a snapshot, to every open tab.
C13_HelloAlwaysSent ==
  [][\A j \in Instances : \A i \in Others(j) :
       Joins(j) => inbox'[i] = Append(inbox[i], HelloMsg)]_vars

\* The same, where the browser has a BroadcastChannel.
C13_HelloSent ==
  [][\A j \in Instances : \A i \in Others(j) :
       (Joins(j) /\ bcSupported) => inbox'[i] = Append(inbox[i], HelloMsg)]_vars

\* The tab that stays open.
Peer == "A"

\* An event that the open peer holds while the joiner is open reaches the
\* joiner, unless the joiner is closed first, and whether or not a further
\* event is created.
C13_EventuallyHeld ==
  \A id \in 1..MaxEvents :
    (up[Peer] /\ up[Joiner] /\ HasId(ledger[Peer], id))
      ~> (~up[Joiner] \/ HasId(ledger[Joiner], id))

SeedEvent == InOut(0, 0, "IN", 1, "Doorman")

InitDup ==
  InitTabs /\ storage \in {<<>>, <<SeedEvent>>} /\ NoFold /\ NoCounter /\ NoStart

NextDup ==
  \/ Tick
  \/ \E i \in Instances : Mount(i)
  \/ \E i \in Instances : \E id \in Uid :
       nextId <= MaxEvents /\ ClickIn(i, id) /\ UNCHANGED crowd
  \/ \E i \in Instances : \E dup \in BOOLEAN : Receive(i, dup)
  \/ \E i \in Instances : \E v \in Range(storageEv[i]) : OnStorage(i, v)

SpecDup == InitDup /\ [][NextDup]_vars

\* C3: the step in which a tab handles the second copy of an EVENT or of a
\* SNAPSHOT leaves its ledger, and so its projection, as it was.
C3_MergeIdempotence ==
  [][\A i \in Instances :
       (/\ Len(dups') > Len(dups)
        /\ dups'[Len(dups')][1] = i
        /\ dups'[Len(dups')][2].type \in {"EVENT", "SNAPSHOT"})
         => /\ ledger'[i] = ledger[i]
            /\ Projected(ledger'[i]) = Projected(ledger[i])]_vars

\* C3 witness: a tab has handled the second copy of an EVENT, or of a SNAPSHOT
\* that carries events, and holds what the message carried.
C3_Witness ==
  \E k \in 1..Len(dups) :
    LET i == dups[k][1]
        m == dups[k][2]
    IN  \/ m.type = "EVENT" /\ HasId(ledger[i], m.event.id)
        \/ m.type = "SNAPSHOT" /\ m.ledger # <<>>
                                /\ Ids(m.ledger) \subseteq Ids(ledger[i])

(***************************************************************************)
(* SpecCollide: one tab, with a uid() whose random suffix may repeat       *)
(* within a millisecond, so that addEvent is called with an id the ledger  *)
(* already holds, online and offline.                                      *)
(***************************************************************************)
Solo == "A"

NextCollide ==
  \/ Tick
  \/ Mount(Solo)
  \/ \E id \in UidColliding : nextId <= MaxGateEvents /\ Create(Solo, id)
  \/ \E v \in BOOLEAN : SetOffline(Solo, v)

SpecCollide == Init /\ [][NextCollide]_vars

\* C4 (as claimed): a call of addEvent with an id the ledger already holds
\* leaves the ledger as it was; put the other way round, a call of addEvent
\* that changes the ledger brings an id the ledger did not hold.
C4_AppendDedupes ==
  [][\A i \in Instances :
       (nextId' # nextId /\ ledger'[i] # ledger[i])
         => Ids(ledger'[i]) # Ids(ledger[i])]_vars

(***************************************************************************)
(* SpecGate: one tab and every control of its main view: the role select,  *)
(* the one-in/one-out switch, IN, OUT, set, adjust, capacity, and the      *)
(* simulated crowd.                                                        *)
(***************************************************************************)
CreateGate(i, id) ==
  \/ ClickIn(i, id) /\ UNCHANGED crowd
  \/ ClickOut(i, id) /\ UNCHANGED crowd
  \/ \E v \in SetInputs : SetOccupancy(i, id, v) /\ UNCHANGED crowd
  \/ \E d \in AdjustInputs : Adjust(i, id, d) /\ UNCHANGED crowd
  \/ \E v \in CapacityInputs : ChangeCapacity(i, id, v) /\ UNCHANGED crowd
  \/ CrowdTimer(i, id)

NextGate ==
  \/ Tick
  \/ Mount(Solo)
  \/ \E r \in roles : SetRole(Solo, r)
  \/ \E v \in BOOLEAN : SetOneInOneOut(Solo, v)
  \/ SimulateCrowd(Solo)
  \/ \E id \in Uid : nextId <= MaxGateEvents /\ CreateGate(Solo, id)

SpecGate == Init /\ [][NextGate]_vars

\* The tab is full under the one-in/one-out policy.
AtCapacity(i) == up[i] /\ oneInOneOut[i] /\ occupancy(i) >= capacity(i)

\* The IN events, by role r, that this step adds to the ledger of tab i.
NewIns(i, r) ==
  {e \in Range(ledger'[i]) \ Range(ledger[i]) : e.type = "IN" /\ e.role = r}

\* C7 (as claimed): while the tab is full under one-in/one-out, no step adds
\* an IN event of a role other than Manager to its ledger.
C7_Rejection ==
  [][\A i \in Instances :
       AtCapacity(i) => \A r \in roles \ {"Manager"} : NewIns(i, r) = {}]_vars

\* While the tab is full under one-in/one-out, the IN button is open to the
\* Manager.
C8_Accepted ==
  \A i \in Instances :
    (AtCapacity(i) /\ role[i] = "Manager") => canEnter(i) /\ ~isMarshal(i)

\* While the tab is full under one-in/one-out, a Manager's entry appends exactly
\* one IN event and raises the occupancy by its amount.
C8_OccupancyRises ==
  [][\A i \in Instances :
       (AtCapacity(i) /\ NewIns(i, "Manager") # {})
         => /\ Len(ledger'[i]) = Len(ledger[i]) + 1
            /\ Cardinality(NewIns(i, "Manager")) = 1
            /\ \A e \in NewIns(i, "Manager") :
                 Projected(ledger'[i]).occupancy = occupancy(i) + e.amount]_vars

\* While the tab is full under one-in/one-out, a Manager's entry appends exactly
\* one IN event and raises the running total, before the final clamp, by its
\* amount; the occupancy is that total clamped at 0.
C8_TotalRises ==
  [][\A i \in Instances :
       (AtCapacity(i) /\ NewIns(i, "Manager") # {})
         => /\ Len(ledger'[i]) = Len(ledger[i]) + 1
            /\ Cardinality(NewIns(i, "Manager")) = 1
            /\ \A e \in NewIns(i, "Manager") :
                 /\ RawOccupancy(ledger'[i]) = RawOccupancy(ledger[i]) + e.amount
                 /\ Projected(ledger'[i]).occupancy
                      = Max(0, RawOccupancy(ledger[i]) + e.amount)]_vars

\* C8 (as claimed): while the tab is full under one-in/one-out, the Manager may
\* enter, and a Manager's entry appends exactly one IN event and raises the
\* occupancy by its amount.
C8_BypassAddsAmount == []C8_Accepted /\ C8_OccupancyRises

\* C8 (amended): the same, except that it is the running total before the
\* final clamp that rises by the amount; the occupancy is that total clamped
\* at 0, and nothing bounds it from above.
C8_Bypass == []C8_Accepted /\ C8_TotalRises

\* C8 witness: the last event of the ledger is a Manager's IN, appended when
\* the occupancy had reached the capacity, and the occupancy is now above it.
C8_Witness ==
  \E i \in Instances :
    /\ up[i] /\ oneInOneOut[i] /\ role[i] = "Manager"
    /\ Len(ledger[i]) >= 2
    /\ LET e == ledger[i][Len(ledger[i])]
           before == Projected(SubSeq(ledger[i], 1, Len(ledger[i]) - 1))
       IN  /\ e.type = "IN" /\ e.role = "Manager"
           /\ before.occupancy >= before.capacity
           /\ occupancy(i) = before.occupancy + e.amount
           /\ occupancy(i) > capacity(i)

\* The same for the one tab of SpecGate, where the crowd-simulation timers
\* create the entries.
C28_CrowdWithinCapacity ==
  (up[Solo] /\ GateOnForAll /\ CapacityFirst(ledger[Solo])
     /\ \A e \in Range(ledger[Solo]) : e.type \in {"IN", "CAPACITY"})
    => occupancy(Solo) <= capacity(Solo)

(***************************************************************************)
(* C21: occupancy equal to a positive capacity is classified in the top    *)
(* tier of the status derivation, the at/over-capacity tier.               *)
(***************************************************************************)
C21_AtCapacityIsTopTier ==
  \A i \in Instances :
    (up[i] /\ capacity(i) > 0 /\ occupancy(i) = capacity(i))
      => status(i).color = "red"

\* At capacity the club counter shows the middle tier; above, the top one.
C21_AtCapacityIsMiddleTier ==
  \A i \in Instances :
    up[i] /\ capacity(i) > 0 =>
      /\ occupancy(i) = capacity(i) => status(i).text = "Near capacity"
      /\ occupancy(i) > capacity(i) => status(i).text = "Over capacity"

(***************************************************************************)
(* SpecRecon: the offline reconciliation scenario.  Tab A creates events   *)
(* only while it is offline, tab B only while it is online; the channel    *)
(* and the storage events deliver as in Spec.                              *)
(***************************************************************************)
OfflineTab == "A"

NextRecon ==
  \/ Tick
  \/ \E i \in Instances : Mount(i)
  \/ \E id \in Uid :
       /\ nextId <= MaxEvents
       /\ offline[OfflineTab]
       /\ ClickIn(OfflineTab, id) /\ UNCHANGED crowd
  \/ \E i \in Instances \ {OfflineTab} : \E id \in Uid :
       nextId <= MaxEvents /\ ClickIn(i, id) /\ UNCHANGED crowd
  \/ \E v \in BOOLEAN : SetOffline(OfflineTab, v)
  \/ \E i \in Instances : Receive(i, FALSE)
  \/ \E i \in Instances : \E v \in Range(storageEv[i]) : OnStorage(i, v)

SpecRecon == Init /\ [][NextRecon]_vars

\* Every tab is open and online, every channel message has been handled, and
\* every tab holds every event created so far.  From here on no handler adds
\* an event to a ledger.
Delivered ==
  \A i \in Instances :
    /\ up[i] /\ ~offline[i]
    /\ pendingQueue[i] = <<>> /\ inbox[i] = <<>>
    /\ Ids(ledger[i]) = 1..(nextId - 1)

\* C11 (as claimed): once tab A has left offline mode and everything sent has
\* been delivered, the tabs hold the events in the same order.
C11_Reconciled ==
  Delivered => \A i, j \in Instances : ledger[i] = ledger[j]

(***************************************************************************)
(* SpecFold: computeStateFromLedger on its own, applied to every ledger of *)
(* at most MaxFoldLen events drawn from FoldShapes, in every array order.  *)
(***************************************************************************)
FoldShapes ==
  UNION {{InOut(0, t, "IN", 1, "Doorman"), InOut(0, t, "IN", 5, "Doorman"),
          InOut(0, t, "OUT", 3, "Doorman"), AdjustEvent(0, t, -1, "Manager"),
          SetEvent(0, t, 2, "Manager"), CapacityEvent(0, t, 1, "Doorman")}
         : t \in 1..MaxTime}

\* The ledger whose k-th element has shape f[k] and id k.
MakeLedger(f) == [k \in DOMAIN f |-> [f[k] EXCEPT !.id = k]]

InitFold ==
  /\ InitTabs
  /\ storage = <<>>
  /\ \E n \in 0..MaxFoldLen : \E f \in [1..n -> FoldShapes] : arg = MakeLedger(f)
  /\ out = [occupancy |-> 0, capacity |-> 0]
  /\ folded = FALSE
  /\ NoSeries
  /\ NoCounter
  /\ NoStart

Project ==
  /\ ~folded
  /\ out' = computeStateFromLedger(arg, DefaultCapacity)
  /\ folded' = TRUE
  /\ UNCHANGED <<now, nextId, bcSupported, storage, settingsRole, up, ledger,
                 ledger0, offline, oneInOneOut, role, pendingQueue, inbox,
                 storageEv, crowd, dups, peers, arg, startTs, interval, points,
                 counterVars, startVars>>

NextFold == Project

SpecFold == InitFold /\ [][NextFold]_vars

\* C5: the occupancy computeStateFromLedger returns is never negative.
C5_ClampInvariant == folded => out.occupancy >= 0

\* C5 witness: a ledger whose running total ends below zero projects to 0.
C5_Witness == folded /\ RawOccupancy(arg) < 0 /\ out.occupancy = 0

\* The reference fold of C6, written from its wording: the occupancy is the
\* value of the last SET in timestamp order (0 when there is none) plus the
\* signed sum of everything after it, clamped once; the capacity is the value
\* of the last CAPACITY, or the default.
Signed(e) ==
  IF e.type = "IN" THEN e.amount
  ELSE IF e.type = "OUT" THEN 0 - e.amount
  ELSE IF e.type = "ADJUST" THEN e.delta
  ELSE 0

LastOf(s, type) ==
  LET ks == {k \in 1..Len(s) : s[k].type = type}
  IN  IF ks = {} THEN 0 ELSE CHOOSE k \in ks : \A j \in ks : j <= k

RECURSIVE SumAfter(_, _)
SumAfter(s, k) ==
  IF k >= Len(s) THEN 0 ELSE Signed(s[k + 1]) + SumAfter(s, k + 1)

\* The events of l by ascending ts, equal ts in array order, picked one at a
\* time: the k-th is the one with exactly k - 1 events before it.
Before(l, a, b) == l[a].ts < l[b].ts \/ (l[a].ts = l[b].ts /\ a < b)

TimeOrder(l) ==
  [k \in 1..Len(l) |->
     l[CHOOSE b \in 1..Len(l) :
         Cardinality({a \in 1..Len(l) : Before(l, a, b)}) = k - 1]]

ReferenceFold(l) ==
  LET s == TimeOrder(l)
      k == LastOf(s, "SET")
      c == LastOf(s, "CAPACITY")
  IN  [occupancy |-> Max(0, (IF k = 0 THEN 0 ELSE s[k].value) + SumAfter(s, k)),
       capacity |-> IF c = 0 THEN DefaultCapacity ELSE s[c].value]

\* C6: computeStateFromLedger returns what the reference fold returns.
C6_ProjectionFold == folded => out = ReferenceFold(arg)

\* C6 witness: Entry(+5), Exit(+3), Adjust(-1), in time order whatever the
\* array order, gives occupancy 1 and the default capacity.
C6_Witness ==
  /\ folded
  /\ Len(arg) = 3
  /\ \E a, b, c \in 1..3 :
       /\ arg[a].type = "IN" /\ arg[a].amount = 5
       /\ arg[b].type = "OUT" /\ arg[b].amount = 3
       /\ arg[c].type = "ADJUST" /\ arg[c].delta = -1
  /\ out = [occupancy |-> 1, capacity |-> DefaultCapacity]


(***************************************************************************)
(* SpecCounter: the person counter of src/script.js alone.  The state is   *)
(* saved to localStorage after every change, so a reload of the page runs  *)
(* the load handler on the state as it stands.                             *)
(***************************************************************************)
InitCounter ==
  /\ InitTabs
  /\ storage = <<>>
  /\ NoFold
  /\ state = DefaultState
  /\ clock = FirstInstant
  /\ tz \in TimeZones
  /\ loaded = FALSE
  /\ NoStart

\* Time passes.
ClockTick ==
  /\ clock < MaxClock
  /\ clock' = clock + 1
  /\ UNCHANGED <<state, tz, loaded, tabVars, foldVars, startVars>>

\* window 'load' (script.js:237-243), on the first load and on a reload.
Load ==
  /\ state' = performDailyResetIfNeeded(state, clock)
  /\ loaded' = TRUE
  /\ UNCHANGED <<clock, tz, tabVars, foldVars, startVars>>

\* btnIn click (script.js:244-247).
BtnIn ==
  /\ loaded
  /\ Len(state.history) < MaxHistory
  /\ state' = register(performDailyResetIfNeeded(state, clock), 1, clock)
  /\ UNCHANGED <<clock, tz, loaded, tabVars, foldVars, startVars>>

\* btnOut click (script.js:248-251).
BtnOut ==
  /\ loaded
  /\ Len(state.history) < MaxHistory
  /\ LET s == performDailyResetIfNeeded(state, clock)
     IN  state' = IF s.count > 0 THEN register(s, -1, clock) ELSE s
  /\ UNCHANGED <<clock, tz, loaded, tabVars, foldVars, startVars>>

\* btnUndo click (script.js:252).
BtnUndo ==
  /\ loaded
  /\ state' = undoLast(state, clock)
  /\ UNCHANGED <<clock, tz, loaded, tabVars, foldVars, startVars>>

\* settingsSave click (script.js:257).
SettingsSave(cap, rt) ==
  /\ loaded
  /\ state' = saveSettings(state, cap, rt)
  /\ UNCHANGED <<clock, tz, loaded, tabVars, foldVars, startVars>>

NextCounter ==
  \/ ClockTick
  \/ Load
  \/ BtnIn
  \/ BtnOut
  \/ BtnUndo
  \/ \E cap \in CapacityFields : \E rt \in ResetTimeFields :
       SettingsSave(cap, rt)

SpecCounter == InitCounter /\ [][NextCounter]_vars

\* The rollover is due and has not been run for today's reset instant.
Eligible(s, t) == t >= ResetToday(s, t) /\ LastReset(s) < ResetToday(s, t)

\* A step archives a report.
Fired == Len(state'.reports) > Len(state.reports)

\* A step logs an entry: a click on IN or OUT, which starts with a check.
Logged == Len(state'.history) > Len(state.history)

\* The first load of the page, which is a check and nothing else.
FirstLoad == ~loaded /\ loaded'

(***************************************************************************)
(* C16: the rollover fires exactly once per eligible window.  A step       *)
(* archives at most one report, and only when now >= today's reset instant *)
(* and the last rollover is older than that instant; a check made then     *)
(* (the first load, a click that logs) fires and sets lastReset to the     *)
(* reset instant, so that no later step with the same reset time fires; a  *)
(* check made outside an eligible window leaves reports and lastReset      *)
(* alone, and the daily aggregate and the count change by the logged click *)
(* only.                                                                   *)
(***************************************************************************)
C16_RolloverOnce ==
  [][LET resetToday == ResetToday(state, clock)
     IN  /\ Len(state'.reports) <= Len(state.reports) + 1
         /\ Fired => /\ Eligible(state, clock)
                     /\ state'.lastReset = resetToday
                     /\ ~Eligible(state', clock)
         /\ ((FirstLoad \/ Logged) /\ Eligible(state, clock)) => Fired
         /\ (FirstLoad /\ ~Eligible(state, clock)) => state' = state
         /\ (Logged /\ ~Eligible(state, clock)) =>
              LET e == state'.history[Len(state'.history)]
              IN  /\ state'.reports = state.reports
                  /\ state'.lastReset = state.lastReset
                  /\ state'.count = state.count + e.delta
                  /\ state'.daily =
                       AddToDaily(state.daily, e.delta, e.total, clock)
         /\ clock < resetToday => ~Fired]_vars

\* Two clicks were logged in a window whose rollover had fired: three
\* checks at least, one report for that reset instant.
C16_Witness ==
  /\ state.lastReset = ResetToday(state, clock)
  /\ Len(state.history) = 2
  /\ \A k \in 1..2 : state.history[k].timestamp >= state.lastReset
  /\ Cardinality({k \in DOMAIN state.reports :
                    state.reports[k].date
                      = IsoDate(state.lastReset - SlotsPerDay)}) = 1

\* What a firing rollover does, the report being dated date.
RolloverEffect(date) ==
  LET n == Len(state.reports)
      r == state'.reports[n + 1]
  IN  /\ Len(state'.reports) = n + 1
      /\ SubSeq(state'.reports, 1, n) = state.reports
      /\ r.inn = state.daily.in
      /\ r.ut = state.daily.out
      /\ r.peak = state.daily.peak
      /\ r.date = date
      /\ state'.lastReset = ResetToday(state, clock)
      /\ state'.daily =
           IF Logged
           THEN LET e == state'.history[Len(state'.history)]
                IN  AddToDaily(ZeroDaily, e.delta, e.total, clock)
           ELSE ZeroDaily

(***************************************************************************)
(* C17: a rollover that fires appends exactly one report whose in, out and *)
(* peak are the running daily aggregate before the firing and whose date   *)
(* is the calendar day before the day of the reset instant; afterwards the *)
(* running aggregate is zero (plus the click the same handler then logs)   *)
(* and lastReset is today's reset instant.                                 *)
(***************************************************************************)
C17_RolloverEffect ==
  [][Fired => RolloverEffect(LocalDate(ResetToday(state, clock)) - 1)]_vars

\* The same effect with both days read in UTC, as toISOString prints them.
C17_RolloverEffectUtc ==
  [][Fired => RolloverEffect(IsoDate(ResetToday(state, clock)) - 1)]_vars

\* A step removes a history entry: an undo on a non-empty history.
Undone == Len(state'.history) < Len(state.history)

(***************************************************************************)
(* C18: undo restores the count from history.  A step that removes a       *)
(* history entry removes the last one and leaves the count equal to the    *)
(* total of the new last entry, or to 0 when no entry is left; undoLast on *)
(* an empty history returns the state unchanged.                           *)
(***************************************************************************)
C18_UndoRestoresCount ==
  [][/\ Undone =>
          LET h == state'.history
          IN  /\ h = SubSeq(state.history, 1, Len(state.history) - 1)
              /\ state'.count = IF h # <<>> THEN h[Len(h)].total ELSE 0
     /\ state.history = <<>> => undoLast(state, clock) = state]_vars

\* After an undo that crossed a rollover: the count is the total of an
\* entry logged before the rollover that had set the count to 0.
C18_Witness ==
  /\ state.history # <<>>
  /\ state.history[Len(state.history)].timestamp < LastReset(state)
  /\ state.count = state.history[Len(state.history)].total
  /\ state.count > 0

RECURSIVE AggregateOf(_)
\* The aggregate of a sequence of history entries, computed from scratch.
AggregateOf(h) ==
  IF h = <<>> THEN [in |-> 0, out |-> 0, peak |-> 0]
  ELSE LET e == h[Len(h)]
           a == AggregateOf(SubSeq(h, 1, Len(h) - 1))
       IN  [in |-> a.in + (IF e.delta > 0 THEN e.delta ELSE 0),
            out |-> a.out + (IF e.delta > 0 THEN 0 ELSE -e.delta),
            peak |-> Max(a.peak, e.total)]

\* The entries of the current reporting period: logged since the last
\* rollover.
CurrentPeriod(s) ==
  SelectSeq(s.history, LAMBDA e : e.timestamp >= LastReset(s))

(***************************************************************************)
(* C19: undo re-derives the daily aggregate.  After a step that removes a  *)
(* history entry, the running in, out and peak are the aggregate, computed *)
(* from scratch, of the remaining entries logged since the last rollover.  *)
(***************************************************************************)
C19_UndoRederivesDaily ==
  [][Undone =>
       LET a == AggregateOf(CurrentPeriod(state'))
       IN  /\ state'.daily.in = a.in
           /\ state'.daily.out = a.out
           /\ state'.daily.peak = a.peak]_vars

(***************************************************************************)
(* SpecSeries: buildActualSeries alone (App.tsx:124-151), on every ledger  *)
(* of at most MaxFoldLen events, every window start and bucket length.     *)
(* The window has TotalPoints buckets (Math.floor(hours * 60 /             *)
(* intervalMin) in the source).                                            *)
(***************************************************************************)
TotalPoints == 2
StartInputs == 0..MaxTime
IntervalInputs == {1, 2}

\* One event applied to the running occupancy (App.tsx:133-136, 143-146).
SeriesStep(occ, e) ==
  LET a == IF e.type = "IN" THEN occ + e.amount ELSE occ
      b == IF e.type = "OUT" THEN a - e.amount ELSE a
      c == IF e.type = "ADJUST" THEN b + e.delta ELSE b
  IN  IF e.type = "SET" THEN e.value ELSE c

RECURSIVE SeriesInit(_, _, _)
\* The first loop: the events up to startTs applied, none removed.
SeriesInit(evts, start, occ) ==
  IF evts = <<>> \/ Head(evts).ts > start THEN occ
  ELSE SeriesInit(Tail(evts), start, SeriesStep(occ, Head(evts)))

RECURSIVE SeriesShift(_, _, _)
\* The while loop: the events up to ts shifted out and applied.
SeriesShift(evts, ts, occ) ==
  IF evts # <<>> /\ Head(evts).ts <= ts
  THEN SeriesShift(Tail(evts), ts, SeriesStep(occ, Head(evts)))
  ELSE [evts |-> evts, occ |-> occ]

RECURSIVE SeriesLoop(_, _, _, _, _, _)
\* The for loop from i to totalPoints.
SeriesLoop(evts, occ, start, i, totalPoints, step) ==
  IF i > totalPoints THEN <<>>
  ELSE LET ts == start + i * step
           r == SeriesShift(evts, ts, occ)
       IN  <<[t |-> ts, actual |-> Max(0, r.occ)]>>
             \o SeriesLoop(r.evts, r.occ, start, i + 1, totalPoints, step)

buildActualSeries(l, start, totalPoints, step) ==
  LET evts == SortByTs(l)
  IN  SeriesLoop(evts, SeriesInit(evts, start, 0), start, 0, totalPoints, step)

InitSeries ==
  /\ InitTabs
  /\ storage = <<>>
  /\ \E n \in 0..MaxFoldLen : \E f \in [1..n -> FoldShapes] : arg = MakeLedger(f)
  /\ out = [occupancy |-> 0, capacity |-> 0]
  /\ folded = FALSE
  /\ startTs \in StartInputs
  /\ interval \in IntervalInputs
  /\ points = <<>>
  /\ NoCounter
  /\ NoStart

Sample ==
  /\ points = <<>>
  /\ points' = buildActualSeries(arg, startTs, TotalPoints, interval)
  /\ UNCHANGED <<tabVars, arg, out, folded, startTs, interval, counterVars,
                 startVars>>

NextSeries == Sample

SpecSeries == InitSeries /\ [][NextSeries]_vars

RECURSIVE ReplayOnce(_, _)
\* The occupancy after the events of s, each applied once, in order.
ReplayOnce(s, occ) ==
  IF s = <<>> THEN occ
  ELSE LET e == Head(s)
           next == CASE e.type = "IN" -> occ + e.amount
                     [] e.type = "OUT" -> occ - e.amount
                     [] e.type = "ADJUST" -> occ + e.delta
                     [] e.type = "SET" -> e.value
                     [] OTHER -> occ
       IN  ReplayOnce(Tail(s), next)

\* The events of l with timestamp <= t, in timestamp order.
UpTo(l, t) == SelectSeq(SortByTs(l), LAMBDA e : e.ts <= t)

(***************************************************************************)
(* C20: every sample of buildActualSeries, at bucket boundary t, is        *)
(* max(0, occupancy after replaying once, in timestamp order, every ledger *)
(* event with timestamp <= t), the events before the window start          *)
(* included.                                                               *)
(***************************************************************************)
C20_SeriesCorrect ==
  \A k \in DOMAIN points :
    /\ points[k].t = startTs + (k - 1) * interval
    /\ points[k].actual = Max(0, ReplayOnce(UpTo(arg, points[k].t), 0))

\* The samples are right when no event is at or before the window start.
C20_SeriesCorrectInside ==
  (\A e \in Range(arg) : e.ts > startTs) => C20_SeriesCorrect

\* The badge of the person counter is in its top tier at capacity.
C21_BadgeAtCapacity ==
  state.count >= state.capacity => updateStatusBadge(state) = "Fullt"

(***************************************************************************)
(* SpecStartup: the startup of each page on whatever text is found under   *)
(* its localStorage keys.  A text is absent, not JSON ("garbage"), JSON of *)
(* another shape ("null", "{}", "[null]", "{resetTime:5}"), or what the    *)
(* page itself had written ("valid").                                      *)
(***************************************************************************)
RawTexts == {"absent", "garbage", "null", "{}", "[null]", "{resetTime:5}", "valid"}

\* What the page had written under each key.
ValidLedger == <<SeedEvent>>
ValidRole == "Manager"
ValidState == [DefaultState EXCEPT !.capacity = 2]

InitStartup ==
  /\ InitTabs
  /\ storage = <<>>
  /\ NoFold
  /\ NoCounter
  /\ raw \in [KeyNames -> RawTexts]
  /\ failed = [p \in PageNames |-> FALSE]
  /\ typed = ""

\* JSON.parse(localStorage.getItem(SETTINGS_KEY) || "{}").role || "Doorman"
\* (App.tsx:187-188) throws on a text that is not JSON and on null.
SettingsThrow(text) == text \in {"garbage", "null"}
SettingsRole(text) == IF text = "valid" THEN ValidRole ELSE "Doorman"

\* The initializer of `ledger` (App.tsx:193-199) catches what JSON.parse
\* throws; computeStateFromLedger (App.tsx:157-158) then throws during the
\* first render on a value without sort() and on an element that is null.
LedgerThrow(text) == text \in {"null", "{}", "{resetTime:5}", "[null]"}
LedgerOf(text) == IF text = "valid" THEN ValidLedger ELSE <<>>

\* The first render of the component in tab i.
StartApp(i) ==
  /\ ~up[i] /\ ~failed["app"]
  /\ IF SettingsThrow(raw["settings"]) \/ LedgerThrow(raw["ledger"])
     THEN /\ failed' = [failed EXCEPT !["app"] = TRUE]
          /\ UNCHANGED <<up, ledger, ledger0, role>>
     ELSE /\ up' = [up EXCEPT ![i] = TRUE]
          /\ ledger' = [ledger EXCEPT ![i] = LedgerOf(raw["ledger"])]
          /\ ledger0' = [ledger0 EXCEPT ![i] = LedgerOf(raw["ledger"])]
          /\ role' = [role EXCEPT ![i] = SettingsRole(raw["settings"])]
          /\ UNCHANGED failed
  /\ UNCHANGED <<now, nextId, bcSupported, storage, settingsRole, offline,
                 oneInOneOut, pendingQueue, inbox, storageEv, crowd, dups,
                 peers, foldVars, counterVars, raw, typed>>

\* loadState (script.js:13-22): JSON.parse throws on a text that is not
\* JSON; Object.assign copies whatever fields the parsed value has, and
\* performDailyResetIfNeeded (script.js:223) throws on a resetTime that is
\* not a string.
StateThrow(text) == text \in {"garbage", "{resetTime:5}"}
loadState(text) == IF text = "valid" THEN ValidState ELSE DefaultState

\* window 'load' (script.js:237-261) on the stored text.
StartCounter ==
  /\ ~loaded /\ ~failed["counter"]
  /\ IF StateThrow(raw["counterState"])
     THEN /\ failed' = [failed EXCEPT !["counter"] = TRUE]
          /\ UNCHANGED <<state, loaded>>
     ELSE /\ state' = performDailyResetIfNeeded(loadState(raw["counterState"]),
                                                clock)
          /\ loaded' = TRUE
          /\ UNCHANGED failed
  /\ UNCHANGED <<clock, tz, raw, typed, tabVars, foldVars>>

NextStartup ==
  \/ StartApp(Solo)
  \/ StartCounter

SpecStartup == InitStartup /\ [][NextStartup]_vars

(***************************************************************************)
(* C22: corrupt persisted data never blocks startup.  Whatever text is     *)
(* stored, no startup ends with an error, and a text that is not what the  *)
(* page wrote is discarded: the ledger starts empty, the settings and the  *)
(* counter state start at their defaults.                                  *)
(***************************************************************************)
C22_CorruptDataDiscarded ==
  /\ \A p \in PageNames : ~failed[p]
  /\ (up[Solo] /\ raw["ledger"] # "valid") => ledger[Solo] = <<>>
  /\ (up[Solo] /\ raw["settings"] # "valid") => role[Solo] = "Doorman"
  /\ (loaded /\ raw["counterState"] # "valid") =>
       [state EXCEPT !.lastReset = NoDate, !.reports = <<>>] = DefaultState

\* What does hold: a ledger text that is not JSON is discarded.
C22_UnparseableLedgerDiscarded ==
  (raw["ledger"] = "garbage" /\ ~SettingsThrow(raw["settings"]))
    => /\ ~failed["app"]
       /\ up[Solo] => ledger[Solo] = <<>>

(***************************************************************************)
(* SpecInput: the numeric controls on the text typed into them.  "cancel"  *)
(* is a dismissed prompt, "" an empty field, "abc" a text that is not a    *)
(* number.                                                                 *)
(***************************************************************************)
InputTexts == {"cancel", "", "abc", "0", "2", "-1"}

\* Number(v), when it is a number.
NumberOf(text) ==
  CASE text = "2" -> 2
    [] text = "-1" -> -1
    [] OTHER -> 0

\* Number(v) is NaN.
IsNaN(text) == text = "abc"

InitInput ==
  /\ InitTabs
  /\ storage = <<>>
  /\ NoFold
  /\ state \in {DefaultState, ValidState}
  /\ clock = FirstInstant
  /\ tz = 0
  /\ loaded = FALSE
  /\ raw = [k \in KeyNames |-> "absent"]
  /\ failed = [p \in PageNames |-> FALSE]
  /\ typed \in InputTexts

\* "Set occupancy..." (App.tsx:489-493) on the text of the prompt.
TypeSetOccupancy(i, id) ==
  IF typed = "cancel" \/ IsNaN(typed)
  THEN up[i] /\ role[i] = "Manager" /\ UNCHANGED vars
  ELSE SetOccupancy(i, id, NumberOf(typed)) /\ UNCHANGED crowd

\* "Adjust..." (App.tsx:494-498) on the text of the prompt.
TypeAdjust(i, id) ==
  IF typed = "cancel" \/ IsNaN(typed) \/ NumberOf(typed) = 0
  THEN up[i] /\ role[i] = "Manager" /\ UNCHANGED vars
  ELSE Adjust(i, id, NumberOf(typed)) /\ UNCHANGED crowd

\* "Max capacity" (App.tsx:506-510) on e.target.value, which is "" when the
\* number field holds no number.
TypeCapacity(i, id) ==
  /\ typed # "cancel"
  /\ ChangeCapacity(i, id, IF IsNaN(typed) THEN 0 ELSE NumberOf(typed))
  /\ UNCHANGED crowd

\* settingsSave (script.js:159-171) on the text of capacityInput: parseInt
\* gives NaN for a text without leading digits.
TypeSettings ==
  /\ typed # "cancel"
  /\ SettingsSave(IF typed \in {"", "abc"} THEN EmptyField ELSE NumberOf(typed),
                  EmptyField)

NextInput ==
  \/ Mount(Solo)
  \/ SetRole(Solo, "Manager")
  \/ \E id \in Uid : nextId <= MaxEvents /\ ClickIn(Solo, id) /\ UNCHANGED crowd
  \/ \E id \in Uid : nextId <= MaxEvents /\ TypeSetOccupancy(Solo, id)
  \/ \E id \in Uid : nextId <= MaxEvents /\ TypeAdjust(Solo, id)
  \/ \E id \in Uid : nextId <= MaxEvents /\ TypeCapacity(Solo, id)
  \/ Load
  \/ TypeSettings

SpecInput == InitInput /\ [][NextInput]_vars

\* The input is empty or not a number.
Malformed == typed \in {"", "abc"}

(***************************************************************************)
(* C23: malformed numeric input aborts the action.  While the text typed   *)
(* is empty or not a number, no SET, ADJUST or CAPACITY event is appended  *)
(* and the capacity of the person counter keeps its value.                 *)
(***************************************************************************)
C23_MalformedInputAborts ==
  [][Malformed =>
       /\ \A i \in Instances :
            \A e \in Range(ledger'[i]) \ Range(ledger[i]) :
              e.type \in {"IN", "OUT"}
       /\ state'.capacity = state.capacity]_vars

\* What does hold: a text that is not a number appends nothing, and neither
\* does an empty adjustment.
C23_NotANumberAborts ==
  [][typed = "abc" =>
       \A i \in Instances :
         \A e \in Range(ledger'[i]) \ Range(ledger[i]) :
           e.type \in {"IN", "OUT", "CAPACITY"}]_vars

(***************************************************************************)
(* C24: the count never underflows.  The counter is >= 0 in every          *)
(* reachable state, and a register(delta) that would make it negative      *)
(* returns the state as it was: count, history and daily aggregate         *)
(* unchanged.                                                              *)
(***************************************************************************)
C24_NoUnderflow ==
  /\ state.count >= 0
  /\ \A delta \in {-1, -2} :
       state.count + delta < 0 => register(state, delta, clock) = state

\* After a rollover and an exit that brought the count back to 0: the next
\* register(-1) is the one that is refused.
C24_Witness ==
  /\ state.count = 0
  /\ state.reports # <<>>
  /\ state.history # <<>>
  /\ state.history[Len(state.history)].delta = -1

(***************************************************************************)
(* C26: the rollover check covers every interaction that changes the       *)
(* count.  No entry, exit or undo is applied while now >= today's reset    *)
(* instant and the rollover for that instant has not fired: the step that  *)
(* logs or removes a history entry either finds the window not eligible or *)
(* fires the rollover itself.                                              *)
(***************************************************************************)
C26_CheckBeforeInteraction ==
  [][(Logged \/ Undone) => (~Eligible(state, clock) \/ Fired)]_vars

\* What does hold: the check runs before every entry and exit.
C26_CheckBeforeEntryAndExit ==
  [][Logged => (~Eligible(state, clock) \/ Fired)]_vars

(***************************************************************************)
(* SpecPeers: peer presence.  Tab A stays open, tab B is opened and        *)
(* closed; open tabs send HELLO at mount and HEARTBEAT from their interval *)
(* timer, and prune their presence map from another.  Time passes in units *)
(* of TimeUnitMs; the timers may fire at any time, and fairness makes them *)
(* fire again and again.                                                   *)
(***************************************************************************)
TimeUnitMs == 2500
LivenessMs == 5000

\* The age from which on all ages are stale.
StaleAge == (LivenessMs + TimeUnitMs - 1) \div TimeUnitMs

\* A prune that keeps every entry.
pruneNothing(p) == p

\* The setPeers updater of the prune interval (App.tsx:219-225).
prunePeers(p) ==
  LET keep == {d \in DOMAIN p : p[d] * TimeUnitMs < LivenessMs}
  IN  [d \in keep |-> p[d]]

\* A time unit passes.
Elapse ==
  /\ peers' = [i \in Instances |->
                 [d \in DOMAIN peers[i] |-> Min(peers[i][d] + 1, StaleAge)]]
  /\ UNCHANGED <<now, nextId, bcSupported, storage, settingsRole, up, ledger,
                 ledger0, offline, oneInOneOut, role, pendingQueue, inbox,
                 storageEv, crowd, dups, foldVars, counterVars, startVars>>

\* The prune interval of tab i fires (App.tsx:217-228).
PrunePeers(i) ==
  /\ up[i]
  /\ peers' = [peers EXCEPT ![i] = prunePeers(@)]
  /\ UNCHANGED <<now, nextId, bcSupported, storage, settingsRole, up, ledger,
                 ledger0, offline, oneInOneOut, role, pendingQueue, inbox,
                 storageEv, crowd, dups, foldVars, counterVars, startVars>>

\* The heartbeat interval of tab i fires (App.tsx:275).
Heartbeat(i) ==
  /\ up[i]
  /\ \A j \in Instances : Len(inbox[j]) < MaxQueue
  /\ inbox' = PostAll(i, <<HeartbeatMsg>>, inbox)
  /\ UNCHANGED <<now, nextId, bcSupported, storage, settingsRole, up, ledger,
                 ledger0, offline, oneInOneOut, role, pendingQueue, storageEv,
                 crowd, dups, peers, foldVars, counterVars, startVars>>

\* HEARTBEAT (App.tsx:249-250).
OnHeartbeat(i, m) ==
  /\ up[i]
  /\ inbox[i] # <<>> /\ m = Head(inbox[i]) /\ m.type = "HEARTBEAT"
  /\ inbox' = [inbox EXCEPT ![i] = Tail(@)]
  /\ peers' = [peers EXCEPT ![i] = Seen(@, m.deviceId)]
  /\ UNCHANGED <<now, nextId, bcSupported, storage, settingsRole, up, ledger,
                 ledger0, offline, oneInOneOut, role, pendingQueue, storageEv,
                 crowd, dups, foldVars, counterVars, startVars>>

\* The messages tab i handles here.
Hear(i) ==
  \/ \E m \in Range(inbox[i]) : OnHello(i, m, FALSE)
  \/ \E m \in Range(inbox[i]) : OnHeartbeat(i, m)
  \/ \E m \in Range(inbox[i]) : OnSnapshot(i, m, FALSE)

NextPeers ==
  \/ \E i \in Instances :
       (\A j \in Instances : Len(inbox[j]) < MaxQueue) /\ Mount(i)
  \/ Close(Joiner)
  \/ \E i \in Instances : Heartbeat(i)
  \/ \E i \in Instances : Hear(i)
  \/ \E i \in Instances : PrunePeers(i)
  \/ Elapse

SpecPeers ==
  /\ Init
  /\ [][NextPeers]_vars
  /\ WF_vars(Elapse)
  /\ \A i \in Instances : WF_vars(Hear(i)) /\ WF_vars(PrunePeers(i))

\* Tab i handles the HELLO or HEARTBEAT at the head of its inbox.
Hears(i) ==
  /\ up[i] /\ up'[i]
  /\ inbox[i] # <<>>
  /\ Head(inbox[i]).type \in {"HELLO", "HEARTBEAT"}
  /\ Len(inbox'[i]) < Len(inbox[i])

\* An entry leaves the presence map of tab i, which stays open.
Forgets(i) ==
  /\ up[i] /\ up'[i]
  /\ DOMAIN peers'[i] # DOMAIN peers[i]
  /\ DOMAIN peers'[i] \subseteq DOMAIN peers[i]

\* Receipt sets peers[d] to the receipt time; a prune leaves exactly the
\* entries set less than the liveness window before.
C27_PresenceSteps ==
  [][\A i \in Instances :
       /\ Hears(i) =>
            LET d == Head(inbox[i]).deviceId
            IN  d \in DOMAIN peers'[i] /\ peers'[i][d] = 0
       /\ Forgets(i) =>
            \A d \in DOMAIN peers[i] :
              IF peers[i][d] * TimeUnitMs < LivenessMs
              THEN d \in DOMAIN peers'[i] /\ peers'[i][d] = peers[i][d]
              ELSE d \notin DOMAIN peers'[i]]_vars

\* A peer that stops sending is eventually removed.
C27_EventuallyRemoved ==
  (~up[Joiner] /\ DeviceId \in DOMAIN peers[Peer])
    ~> (up[Joiner] \/ DeviceId \notin DOMAIN peers[Peer])

(***************************************************************************)
(* C27: peer presence.  Receiving HELLO or HEARTBEAT from device d sets    *)
(* peers[d] to the receipt time; a prune keeps exactly the peers heard     *)
(* less than the liveness window (5000 ms) before it; a peer that stops    *)
(* sending is eventually removed.                                          *)
(***************************************************************************)
C27_PeerPresence == C27_PresenceSteps /\ C27_EventuallyRemoved

\* The other tab has closed, its last message was handled a liveness window
\* ago, and the prune that removes it is due.
C27_Witness ==
  /\ up[Peer] /\ ~up[Joiner]
  /\ inbox[Peer] = <<>>
  /\ DeviceId \in DOMAIN peers[Peer]
  /\ peers[Peer][DeviceId] = StaleAge

(***************************************************************************)
(* C29: the count matches the history.  In every reachable state of the    *)
(* person counter, count is the total of the last history entry, or 0 when *)
(* the history is empty.                                                   *)
(***************************************************************************)
C29_CountMatchesHistory ==
  state.count = IF state.history # <<>>
                THEN state.history[Len(state.history)].total
                ELSE 0

\* What does hold: only a rollover that fires over a non-empty history
\* breaks the match.
C29_OnlyRolloverBreaks ==
  [][(C29_CountMatchesHistory /\ ~(Fired /\ state.history # <<>>))
       => C29_CountMatchesHistory']_vars

(***************************************************************************)
(* C30: register / undo round trip.  In every reachable state in which no  *)
(* rollover is due, an accepted register(delta) immediately followed by    *)
(* undoLast gives back the count, the history and the running in, out and  *)
(* peak of before the register, also when a rollover has fired earlier.    *)
(***************************************************************************)
C30_RegisterUndoRoundTrip ==
  \A delta \in {1, -1} :
    LET s1 == register(state, delta, clock)
        s2 == undoLast(s1, clock)
    IN  (s1 # state /\ ~Eligible(state, clock)) =>
          /\ s2.count = state.count
          /\ s2.history = state.history
          /\ s2.daily.in = state.daily.in
          /\ s2.daily.out = state.daily.out
          /\ s2.daily.peak = state.daily.peak

\* What does hold: an accepted round trip gives back the history.
C30_RoundTripHistory ==
  \A delta \in {1, -1} :
    LET s1 == register(state, delta, clock)
    IN  s1 # state => undoLast(s1, clock).history = state.history

(***************************************************************************)
(* C31: one report per date.  In every reachable state of the person       *)
(* counter, reached by entries, exits, undo, rollover checks at any time   *)
(* and settings saves that change the reset time, no two reports of the    *)
(* archive carry the same date.                                            *)
(***************************************************************************)
C31_OneReportPerDate ==
  \A i, j \in DOMAIN state.reports :
    i # j => state.reports[i].date # state.reports[j].date

(***************************************************************************)
(* SpecIds: two tabs that create events online and offline, over a channel *)
(* that may deliver a message twice and may deliver two messages in the    *)
(* other order, with the storage events of every write.  The ids of the    *)
(* events created are fresh.                                               *)
(***************************************************************************)
\* The channel hands tab i its two oldest messages in the other order.
Reorder(i) ==
  /\ up[i]
  /\ Len(inbox[i]) >= 2
  /\ inbox[i][1] # inbox[i][2]
  /\ inbox' = [inbox EXCEPT ![i] = <<@[2], @[1]>> \o SubSeq(@, 3, Len(@))]
  /\ UNCHANGED <<now, nextId, bcSupported, storage, settingsRole, up, ledger,
                 ledger0, offline, oneInOneOut, role, pendingQueue, storageEv,
                 crowd, dups, foldVars, counterVars, startVars, peers>>

NextIds ==
  \/ \E i \in Instances : Mount(i)
  \/ \E i \in Instances : \E id \in Uid :
       nextId <= MaxEvents /\ ClickIn(i, id) /\ UNCHANGED crowd
  \/ \E i \in Instances : \E v \in BOOLEAN : SetOffline(i, v)
  \/ \E i \in Instances : \E dup \in BOOLEAN : Receive(i, dup)
  \/ \E i \in Instances : Reorder(i)
  \/ \E i \in Instances : \E v \in Range(storageEv[i]) : OnStorage(i, v)

SpecIds == Init /\ [][NextIds]_vars

\* No two positions of a ledger hold the same id.
UniqueIds(l) == \A a, b \in 1..Len(l) : a # b => l[a].id # l[b].id

(***************************************************************************)
(* C32: unique ids in the ledger.  With fresh ids for the events created,  *)
(* no tab's ledger, and no stored ledger, holds two events of one id,      *)
(* after any interleaving of appends online and offline, flushes, EVENT    *)
(* messages delivered twice or in the other order, SNAPSHOT merges and     *)
(* merges of storage events.                                               *)
(***************************************************************************)
C32_UniqueIds ==
  /\ \A i \in Instances : UniqueIds(ledger[i])
  /\ UniqueIds(storage)

\* C32 witness: a tab holds every event created, one of them received in an
\* EVENT message that was delivered twice, and has no message and no storage
\* event left to handle.
C32_Witness ==
  \E i \in Instances :
    /\ up[i]
    /\ Len(ledger[i]) = MaxEvents
    /\ inbox[i] = <<>> /\ storageEv[i] = <<>>
    /\ \E k \in 1..Len(dups) :
         /\ dups[k][1] = i
         /\ dups[k][2].type = "EVENT"
         /\ HasId(ledger[i], dups[k][2].event.id)

=============================================================================
